---- MODULE Spec2Model ----
(***************************************************************************)
(* Redis sync provider (core/pkg/sync/redis/redis_sync.go) and the         *)
(* standalone service that runs it (flagd/pkg/service/redis-sync).         *)
(*                                                                         *)
(* Tasks: Service.Start, the three errgroup siblings (Sync.Sync, the gRPC  *)
(* sync service, Service.processSyncData), the cron callbacks that the     *)
(* cron scheduler runs each in a goroutine of its own, and the detached    *)
(* ReSync goroutines started by Service.updateStoreFromSyncData.           *)
(***************************************************************************)
EXTENDS Integers, Naturals, Sequences, FiniteSets

VARIABLES
    doc,        \* raw value stored under rs.Key in Redis ("" = key missing or empty)
    docChanges, \* number of writes to the key so far
    LastSHA,    \* Sync.LastSHA
    ready,      \* Sync.ready
    cronState,  \* rs.Cron: "new", "added", "running", "stopped"
    ticks,      \* number of firings of the cron entry so far
    syncT,      \* the goroutine running Sync.Sync: pc, locals, returned error
    cron,       \* the goroutines running the cron callback
    resync,     \* the detached goroutines running ReSync, each with its own channel
    dataSync,   \* the channel made by Service.Start
    cons,       \* the goroutine running processSyncData
    start,      \* Service.Start: pc and returned error
    gCtx,       \* the errgroup context: cancelled or not, and the group's first error
    applied,    \* payload last handed to evaluator.SetState without error
    lastFetched,\* history: payload of the latest successful non-empty read
    overlaps,   \* history: kinds of fetch cycles that ran at the same time
    mu,         \* Service.mu (sync.RWMutex): number of writers and of readers holding it
    client,     \* rs.Client, the Redis connection: open or closed, and the calls of Close
    redis,      \* how Redis answers JSON.GET and GET: anything, or fixed outcomes
    uri,        \* the connection string given to NewRedisSync, as url.Parse sees it
    conn        \* what NewRedisSync returned: the Sync's descriptor fields, or an error

vars == <<doc, docChanges, LastSHA, ready, cronState, ticks, syncT, cron, resync,
          dataSync, cons, start, gCtx, applied, lastFetched, overlaps,
          mu, client, redis, uri, conn>>

----------------------------------------------------------------------------
(* Bounds of the model *)

MaxDocChanges == 1
MaxTicks == 2
MaxCron == 2
MaxResync == 1
MaxReaders == 2
MaxCloseCalls == 2
MaxKeyFlips == 2

(* Interval: 30, and the default of the redis-interval flag *)
DefaultInterval == 30

(* make(chan coresync.DataSync, 1) *)
ChanCap == 1

----------------------------------------------------------------------------
(* Values *)

RawDocs == {"", "rA", "rA2", "rB", "bad"}
NoSHA == ""
NoData == ""

Crons == 1..MaxCron
Resyncs == 1..MaxResync

(* utils.ConvertToJSON(data, ".json", "application/json"): the canonical  *)
(* document text of a raw value, or a conversion error.                   *)
ConvertToJSON(raw) ==
    CASE raw = "rA"  -> [json |-> "A", err |-> "nil"]
      [] raw = "rA2" -> [json |-> "A", err |-> "nil"]
      [] raw = "rB"  -> [json |-> "B", err |-> "nil"]
      [] OTHER       -> [json |-> NoData, err |-> "conv"]

(* sha3-256 of the payload, base64 encoded: one token per payload, never  *)
(* the empty string.                                                      *)
generateSHA(data) ==
    CASE data = "A" -> "hA"
      [] data = "B" -> "hB"
      [] OTHER      -> "h0"

(* Outcomes of the two Redis commands of one fetchData call.  "ok": the   *)
(* command returns the stored value; "Nil": redis.Nil; "err": any other   *)
(* error; "ctx": the error of a cancelled context.                        *)
CmdOutcomes(raw, cancelled) ==
    IF cancelled THEN {"ctx"}
    ELSE {"ok", "err"} \cup (IF raw = "" THEN {"Nil"} ELSE {})

(* What fetchData returns for a raw value a command gave: cmds are the     *)
(* commands it has sent.                                                   *)
Converted(raw, cmds) ==
    IF raw = "" THEN [data |-> NoData, err |-> "nil", cmds |-> cmds]
    ELSE LET c == ConvertToJSON(raw)
         IN  IF c.err # "nil" THEN [data |-> NoData, err |-> c.err, cmds |-> cmds]
             ELSE [data |-> c.json, err |-> "nil", cmds |-> cmds]

(* A variant in which a key missing for GET is an error *)
fetchDataMissingIsError(jr, gr, raw) ==
    IF jr = "ok"
    THEN Converted(raw, <<"JSON.GET">>)
    ELSE IF gr # "ok"
         THEN [data |-> NoData, err |-> IF gr = "ctx" THEN "ctx" ELSE "redis",
               cmds |-> <<"JSON.GET", "GET">>]
         ELSE Converted(raw, <<"JSON.GET", "GET">>)

(* A variant without the fallback to GET *)
fetchDataNoFallback(jr, gr, raw) ==
    IF jr = "ok"
    THEN Converted(raw, <<"JSON.GET">>)
    ELSE IF jr = "Nil" THEN [data |-> NoData, err |-> "nil", cmds |-> <<"JSON.GET">>]
         ELSE [data |-> NoData, err |-> IF jr = "ctx" THEN "ctx" ELSE "redis",
               cmds |-> <<"JSON.GET">>]

(* A variant in which an empty result of JSON.GET goes on to GET *)
fetchDataEmptyTriesFallback(jr, gr, raw) ==
    IF jr = "ok" /\ raw # ""
    THEN Converted(raw, <<"JSON.GET">>)
    ELSE IF gr # "ok"
         THEN IF gr = "Nil" THEN [data |-> NoData, err |-> "nil", cmds |-> <<"JSON.GET", "GET">>]
              ELSE [data |-> NoData, err |-> IF gr = "ctx" THEN "ctx" ELSE "redis",
                    cmds |-> <<"JSON.GET", "GET">>]
         ELSE Converted(raw, <<"JSON.GET", "GET">>)

(* fetchData: the (data, err) it returns for the outcome jr of JSON.GET,  *)
(* the outcome gr of GET and the value raw stored under the key, with the *)
(* commands it sent.                                                      *)
fetchData(jr, gr, raw) ==
    IF jr = "ok"
    THEN Converted(raw, <<"JSON.GET">>)
    ELSE IF gr # "ok"
         THEN IF gr = "Nil" THEN [data |-> NoData, err |-> "nil", cmds |-> <<"JSON.GET", "GET">>]
              ELSE [data |-> NoData, err |-> IF gr = "ctx" THEN "ctx" ELSE "redis",
                    cmds |-> <<"JSON.GET", "GET">>]
         ELSE Converted(raw, <<"JSON.GET", "GET">>)

(* The client as redis.NewClient returns it: st is the state of its        *)
(* connection pool, calls the number of calls of Close and ret what the    *)
(* latest of them returned.                                                *)
OpenClient == [st |-> "open", calls |-> 0, ret |-> "nil"]

(* A closed client fails every command; with a cancelled context the error *)
(* may be that of the context.                                             *)
ClosedResults(cancelled) ==
    {fetchData("err", "err", doc)}
    \cup (IF cancelled THEN {fetchData("ctx", "ctx", doc)} ELSE {})

(* Redis answers each command in any way it can *)
AnyRedis == [mode |-> "any", jr |-> "ok", gr |-> "ok"]

(* The results fetchData can return in the current state: for any outcome *)
(* of the two commands, or for the outcomes this Redis always gives.       *)
FetchResults(cancelled) ==
    IF client.st = "closed"
    THEN ClosedResults(cancelled)
    ELSE IF redis.mode = "any" \/ cancelled
    THEN { fetchData(jr, gr, doc) : jr \in CmdOutcomes(doc, cancelled),
                                    gr \in CmdOutcomes(doc, cancelled) }
    ELSE { fetchData(redis.jr, redis.gr, doc) }

(* The same when Redis answers every command of a live context. *)
HealthyResults(cancelled) ==
    IF cancelled \/ client.st = "closed" THEN FetchResults(cancelled)
    ELSE {fetchData("ok", "ok", doc)}

----------------------------------------------------------------------------
(* NewRedisSync.  A connection string is given by the parts url.Parse      *)
(* takes it into: scheme (lower case), host, path (a sequence of           *)
(* characters) and query (a sequence of name/value pairs).                 *)

Digits == {"0", "1", "2", "3", "4", "5", "6", "7", "8", "9"}

DigitValue(ch) ==
    CASE ch = "0" -> 0 [] ch = "1" -> 1 [] ch = "2" -> 2 [] ch = "3" -> 3
      [] ch = "4" -> 4 [] ch = "5" -> 5 [] ch = "6" -> 6 [] ch = "7" -> 7
      [] ch = "8" -> 8 [] ch = "9" -> 9

(* Decimal digits of the largest int (64 bits): 9223372036854775807 *)
MaxIntDigits ==
    <<"9","2","2","3","3","7","2","0","3","6","8","5","4","7","7","5","8","0","7">>

RECURSIVE StripZeros(_)
StripZeros(ds) ==
    IF Len(ds) > 1 /\ Head(ds) = "0" THEN StripZeros(Tail(ds)) ELSE ds

(* a <= b for digit sequences of the same length *)
RECURSIVE DigitsLeq(_, _)
DigitsLeq(a, b) ==
    IF a = <<>> THEN TRUE
    ELSE IF DigitValue(Head(a)) # DigitValue(Head(b))
         THEN DigitValue(Head(a)) < DigitValue(Head(b))
         ELSE DigitsLeq(Tail(a), Tail(b))

(* Decimal digits of the magnitude of the smallest int: -9223372036854775808 *)
MinIntDigits ==
    <<"9","2","2","3","3","7","2","0","3","6","8","5","4","7","7","5","8","0","8">>

(* The digits ds are a magnitude of at most the magnitude lim *)
FitsInt(ds, lim) ==
    LET z == StripZeros(ds)
    IN  Len(z) < Len(lim) \/ (Len(z) = Len(lim) /\ DigitsLeq(z, lim))

RECURSIVE DecimalValue(_)
DecimalValue(ds) ==
    IF ds = <<>> THEN 0
    ELSE 10 * DecimalValue(SubSeq(ds, 1, Len(ds) - 1)) + DigitValue(ds[Len(ds)])

(* strconv.Atoi: an optional sign and decimal digits, within the range of  *)
(* int; anything else is an error.                                         *)
Atoi(str) ==
    LET signed == str # <<>> /\ Head(str) \in {"+", "-"}
        neg == str # <<>> /\ Head(str) = "-"
        ds == IF signed THEN Tail(str) ELSE str
    IN  IF ds = <<>> \/ (\E i \in 1..Len(ds) : ds[i] \notin Digits)
        THEN [n |-> 0, err |-> "invalid syntax"]
        ELSE IF ~FitsInt(ds, IF neg THEN MinIntDigits ELSE MaxIntDigits)
        THEN [n |-> 0, err |-> "value out of range"]
        ELSE [n |-> IF neg THEN 0 - DecimalValue(ds) ELSE DecimalValue(ds), err |-> "nil"]

(* A variant of TrimPrefix that leaves the path as it is *)
KeepSlash(path) == path

(* strings.TrimPrefix(path, "/") *)
TrimSlash(path) ==
    IF path # <<>> /\ Head(path) = "/" THEN Tail(path) ELSE path

(* A variant of Get that returns the value of the first parameter, whatever its name *)
QueryGetFirstParam(query, name) ==
    IF query = <<>> THEN "" ELSE Head(query).v

(* parsedURI.Query().Get(name): the first value given for the name, or "" *)
RECURSIVE QueryGet(_, _)
QueryGet(query, name) ==
    IF query = <<>> THEN ""
    ELSE IF Head(query).k = name THEN Head(query).v
         ELSE QueryGet(Tail(query), name)

(* url.Parse rejects a host whose port is not a number *)
UrlParseFails(u) == u.Host = "localhost:abc"

(* "*/%d * * * *" with rs.Interval *)
CronSpec(interval) == <<"*/", interval, "*", "*", "*", "*">>

(* cron's parser accepts the spec: a step must be positive *)
SpecParses(spec) == spec[2] > 0

(* The empty connection string: the Source of a zero sync.DataSync *)
NoSource == [Scheme |-> "", Host |-> "", Path |-> <<>>, Query |-> <<>>]

NotConstructed ==
    [err |-> "none", URI |-> NoSource, Key |-> "", Database |-> 0, Host |-> "", TLS |-> FALSE,
     Interval |-> 0, Entries |-> <<>>]

NewRedisSync(u) ==
    IF UrlParseFails(u)
    THEN [NotConstructed EXCEPT !.err = "invalid Redis URI"]
    ELSE IF u.Scheme # "redis" /\ u.Scheme # "rediss"
    THEN [NotConstructed EXCEPT !.err = "unsupported scheme"]
    ELSE IF QueryGet(u.Query, "key") = ""
    THEN [NotConstructed EXCEPT !.err = "Redis key must be specified"]
    ELSE [err |-> "nil",
          URI |-> u,
          Key |-> QueryGet(u.Query, "key"),
          Database |-> IF u.Path # <<>> /\ u.Path # <<"/">>
                          /\ Atoi(TrimSlash(u.Path)).err = "nil"
                       THEN Atoi(TrimSlash(u.Path)).n
                       ELSE 0,
          Host |-> IF u.Host = "" THEN "localhost:6379" ELSE u.Host,
          TLS |-> u.Scheme = "rediss",
          Interval |-> DefaultInterval,
          Entries |-> <<>>]

(* NewService: NewRedisSync, and on success SetInterval(cfg.RedisInterval) *)
NewServiceSync(u, interval) ==
    IF NewRedisSync(u).err # "nil" THEN NewRedisSync(u)
    ELSE [NewRedisSync(u) EXCEPT !.Interval = interval]

(* Connection strings: schemes, hosts (one with a port url.Parse rejects),  *)
(* paths and queries.                                                      *)
Nines == [i \in 1..20 |-> "9"]

UriPaths ==
    { <<>>, <<"/">>, <<"/", "0">>, <<"/", "5">>, <<"/", "1", "2">>,
      <<"/", "0", "0", "7">>, <<"/", "-", "3">>, <<"/", "+", "4">>,
      <<"/", "a">>, <<"/", "1", "a">>, <<"/", "1", "/", "2">>, <<"/", "-">>,
      <<"/">> \o Nines, <<"/">> \o MinIntDigits, <<"/", "-">> \o MinIntDigits \o <<"0">> }

UriQueries ==
    { <<>>,
      <<[k |-> "key", v |-> ""]>>,
      <<[k |-> "key", v |-> "flags"]>>,
      <<[k |-> "other", v |-> "x"]>>,
      <<[k |-> "other", v |-> "x"], [k |-> "key", v |-> "flags"]>>,
      <<[k |-> "key", v |-> ""], [k |-> "key", v |-> "flags"]>> }

UriInputs ==
    [Scheme : {"redis", "rediss", "http", ""},
     Host : {"", "localhost:6379", "localhost:abc"},
     Path : UriPaths,
     Query : UriQueries]

(* Values of cfg.RedisInterval and of the argument of SetInterval *)
Intervals == {0, DefaultInterval, 2 * DefaultInterval}

(* redis://localhost:6379/0?key=flags *)
ServiceUri ==
    [Scheme |-> "redis", Host |-> "localhost:6379", Path |-> <<"/", "0">>,
     Query |-> <<[k |-> "key", v |-> "flags"]>>]

----------------------------------------------------------------------------
(* Fetch cycles.  A cycle keeps its locals until its goroutine returns     *)
(* (pc "ret"); pred is history: the payload of the latest successful      *)
(* non-empty read before this cycle's own.                                 *)

IdleCycle == [pc |-> "idle", prev |-> NoSHA, data |-> NoData, err |-> "nil",
              pred |-> NoData, sent |-> NoData]

BeginCycle == [IdleCycle EXCEPT !.pc = "fetch", !.prev = LastSHA]

(* The cycle after the read of fetchData returned res *)
AfterFetch(cyc, res) ==
    IF res.err # "nil" \/ res.data = NoData
    THEN [cyc EXCEPT !.pc = "ret", !.err = res.err]
    ELSE [cyc EXCEPT !.pc = "store", !.data = res.data, !.pred = lastFetched]

LastFetchedAfter(res) ==
    IF res.err = "nil" /\ res.data # NoData THEN res.data ELSE lastFetched

InProgress(cyc) == cyc.pc \in {"fetch", "store", "decide", "send"}

BusyCrons == {c \in Crons : InProgress(cron[c])}
BusyResyncs == {r \in Resyncs : InProgress(resync[r].cyc)}
InitCycleBusy == syncT.pc \in {"initFetch", "initStore", "initSend"}
CyclesInProgress ==
    Cardinality(BusyCrons) + Cardinality(BusyResyncs) + (IF InitCycleBusy THEN 1 ELSE 0)

(* history: what a cycle of the given kind overlaps with when it begins *)
OverlapsAtBegin(kind) ==
    overlaps
    \cup (IF BusyCrons # {} THEN {IF kind = "cron" THEN "cron-cron" ELSE "cron-resync"} ELSE {})
    \cup (IF BusyResyncs # {} THEN {IF kind = "cron" THEN "cron-resync" ELSE "resync-resync"} ELSE {})
    \cup (IF InitCycleBusy THEN {"init"} ELSE {})

(* The consumer loop at a position, holding no event: data and src are    *)
(* the event it took, upd how its store update ended, emit the source the *)
(* fan-out was notified with.                                             *)
ConsAt(pc) == [pc |-> pc, data |-> NoData, src |-> NoSource, upd |-> "none", emit |-> NoSource]

(* sync.DataSync{FlagData: data, Source: rs.URI} *)
(* Variant: the event names no source *)
DataSyncNoSource(data) == [FlagData |-> data, Source |-> NoSource]

DataSync(data) == [FlagData |-> data, Source |-> conn.URI]

----------------------------------------------------------------------------
(* The service as NewService leaves it, apart from its environment *)
ServiceInit ==
    /\ docChanges = 0
    /\ LastSHA = NoSHA
    /\ ready = FALSE
    /\ cronState = "new"
    /\ ticks = 0
    /\ syncT = [IdleCycle EXCEPT !.pc = "new"]
    /\ cron = [c \in Crons |-> IdleCycle]
    /\ resync = [r \in Resyncs |-> [cyc |-> IdleCycle, ch |-> <<>>]]
    /\ dataSync = <<>>
    /\ cons = ConsAt("new")
    /\ start = [pc |-> "new", err |-> "nil"]
    /\ gCtx = [cancelled |-> FALSE, err |-> "nil"]
    /\ applied = NoData
    /\ lastFetched = NoData
    /\ overlaps = {}
    /\ mu = [writers |-> 0, readers |-> 0]
    /\ client = OpenClient

(* The service constructed from its connection string, and a Redis that   *)
(* holds any document and answers in any way.                              *)
Init ==
    /\ ServiceInit
    /\ doc \in RawDocs
    /\ redis = AnyRedis
    /\ uri = ServiceUri
    /\ conn = NewServiceSync(ServiceUri, DefaultInterval)

----------------------------------------------------------------------------
(* The environment: a writer of the key, and the shutdown signal *)

WriteDoc ==
    /\ docChanges < MaxDocChanges
    /\ \E raw \in RawDocs \ {doc} : doc' = raw
    /\ docChanges' = docChanges + 1
    /\ UNCHANGED <<mu, client, redis, uri, conn, LastSHA, ready, cronState, ticks, syncT, cron, resync, dataSync, cons,
                   start, gCtx, applied, lastFetched, overlaps>>

(* The context given to Service.Start is cancelled (signal.NotifyContext). *)
Shutdown ==
    /\ start.pc # "returned"
    /\ ~gCtx.cancelled
    /\ gCtx' = [gCtx EXCEPT !.cancelled = TRUE]
    /\ UNCHANGED <<mu, client, redis, uri, conn, doc, docChanges, LastSHA, ready, cronState, ticks, syncT, cron, resync,
                   dataSync, cons, start, applied, lastFetched, overlaps>>

(* Variant: a sibling's error is recorded but the group's context is not  *)
(* cancelled (a plain WaitGroup with an error slot).                       *)
GroupFailNoCancel(e) ==
    [gCtx EXCEPT !.err = IF gCtx.err = "nil" THEN e ELSE gCtx.err]

(* errgroup: a sibling that returns a non-nil error cancels the group's   *)
(* context; the first error is the one Wait returns.                      *)
GroupFail(e) ==
    [cancelled |-> TRUE, err |-> IF gCtx.err = "nil" THEN e ELSE gCtx.err]

----------------------------------------------------------------------------
(* Service.Start *)

(* The outcomes of rs.Client.Ping(ctx): those given, unless the context is *)
(* cancelled or the client closed.                                         *)
PingOutcomes(pings) ==
    IF gCtx.cancelled THEN {"ctx"}
    ELSE IF client.st = "closed" THEN {"err"}
    ELSE pings

(* Variant: the siblings are started before Init is called.               *)
StartSiblingsBeforeInit(pings) ==
    /\ start.pc = "new"
    /\ \E ping \in PingOutcomes(pings) :
          start' = IF ping = "ok" THEN [start EXCEPT !.pc = "running"]
                                  ELSE [pc |-> "returned", err |-> "init"]
    /\ syncT' = [syncT EXCEPT !.pc = "addFunc"]
    /\ cons' = [cons EXCEPT !.pc = "recv"]
    /\ UNCHANGED <<mu, client, redis, uri, conn, doc, docChanges, LastSHA, ready, cronState, ticks, cron, resync,
                   dataSync, gCtx, applied, lastFetched, overlaps>>

(* rs.Init: one Ping; on success the three siblings are started. *)
StartInitPing(pings) ==
    /\ start.pc = "new"
    /\ \E ping \in PingOutcomes(pings) :
          IF ping = "ok"
          THEN /\ start' = [start EXCEPT !.pc = "running"]
               /\ syncT' = [syncT EXCEPT !.pc = "addFunc"]
               /\ cons' = [cons EXCEPT !.pc = "recv"]
          ELSE /\ start' = [pc |-> "returned", err |-> "init"]
               /\ UNCHANGED <<syncT, cons>>
    /\ UNCHANGED <<mu, client, redis, uri, conn, doc, docChanges, LastSHA, ready, cronState, ticks, cron, resync,
                   dataSync, gCtx, applied, lastFetched, overlaps>>

StartInit == StartInitPing({"err", "ok"})

(* The sibling running s.syncService.Start(gCtx) returns an error while   *)
(* the service runs.                                                       *)
SvcFail ==
    /\ start.pc = "running"
    /\ ~gCtx.cancelled
    /\ gCtx' = GroupFail("svc")
    /\ UNCHANGED <<mu, client, redis, uri, conn, doc, docChanges, LastSHA, ready, cronState, ticks, syncT, cron, resync,
                   dataSync, cons, start, applied, lastFetched, overlaps>>

(* g.Wait: returns the group's first error once the three siblings have   *)
(* returned.  The sibling running s.syncService.Start(gCtx) otherwise      *)
(* returns nil when the context is cancelled.                              *)
StartReturn ==
    /\ start.pc = "running"
    /\ syncT.pc = "done" /\ cons.pc = "done" /\ gCtx.cancelled
    /\ start' = [pc |-> "returned", err |-> gCtx.err]
    /\ UNCHANGED <<mu, client, redis, uri, conn, doc, docChanges, LastSHA, ready, cronState, ticks, syncT, cron, resync,
                   dataSync, cons, gCtx, applied, lastFetched, overlaps>>

----------------------------------------------------------------------------
(* Sync.Sync *)

(* Variant: the scheduler is started when the entry is added, before the   *)
(* initial fetch.                                                          *)
SyncAddFuncStarted ==
    /\ syncT.pc = "addFunc"
    /\ cronState' = "running"
    /\ conn' = IF SpecParses(CronSpec(conn.Interval))
               THEN [conn EXCEPT !.Entries = Append(conn.Entries, CronSpec(conn.Interval))]
               ELSE conn
    /\ syncT' = [syncT EXCEPT !.pc = "initFetch", !.prev = LastSHA]
    /\ overlaps' = OverlapsAtBegin("init")
    /\ UNCHANGED <<mu, client, redis, uri, doc, docChanges, LastSHA, ready, ticks, cron, resync, dataSync, cons,
                   start, gCtx, applied, lastFetched>>

(* rs.Cron.AddFunc(spec, callback): the entry is added when the spec       *)
(* parses, and the error is dropped when it does not.                      *)
SyncAddFunc ==
    /\ syncT.pc = "addFunc"
    /\ cronState' = "added"
    /\ conn' = IF SpecParses(CronSpec(conn.Interval))
               THEN [conn EXCEPT !.Entries = Append(conn.Entries, CronSpec(conn.Interval))]
               ELSE conn
    /\ syncT' = [syncT EXCEPT !.pc = "initFetch", !.prev = LastSHA]
    /\ overlaps' = OverlapsAtBegin("init")
    /\ UNCHANGED <<mu, client, redis, uri, doc, docChanges, LastSHA, ready, ticks, cron, resync, dataSync, cons,
                   start, gCtx, applied, lastFetched>>

(* Variant: a failure of the initial fetch is logged and swallowed, as in  *)
(* the periodic callback.                                                  *)
SyncInitFetchSwallows(results) ==
    /\ syncT.pc = "initFetch"
    /\ \E res \in results :
          /\ lastFetched' = LastFetchedAfter(res)
          /\ syncT' = [AfterFetch(syncT, res) EXCEPT
                          !.pc = IF res.err # "nil" \/ res.data = NoData
                                 THEN "setReady" ELSE "initStore"]
    /\ UNCHANGED <<mu, client, redis, uri, conn, doc, docChanges, LastSHA, ready, cronState, ticks, cron, resync,
                   dataSync, cons, start, gCtx, applied, overlaps>>

(* Variant: an empty payload in the initial cycle skips rs.ready = true.   *)
SyncInitFetchEmptyNotReady(results) ==
    /\ syncT.pc = "initFetch"
    /\ \E res \in results :
          /\ lastFetched' = LastFetchedAfter(res)
          /\ IF res.err # "nil"
             THEN /\ syncT' = [syncT EXCEPT !.pc = "done", !.err = res.err]
                  /\ gCtx' = GroupFail(res.err)
             ELSE /\ syncT' = [AfterFetch(syncT, res) EXCEPT
                                 !.pc = IF res.data = NoData THEN "cronStart" ELSE "initStore"]
                  /\ UNCHANGED gCtx
    /\ UNCHANGED <<mu, client, redis, uri, conn, doc, docChanges, LastSHA, ready, cronState, ticks, cron, resync,
                   dataSync, cons, start, applied, overlaps>>

(* data, err := rs.fetchData(ctx), up to the point where fetchData has the *)
(* converted payload; an error makes Sync return it.                       *)
SyncInitFetchIn(results) ==
    /\ syncT.pc = "initFetch"
    /\ \E res \in results :
          /\ lastFetched' = LastFetchedAfter(res)
          /\ IF res.err # "nil"
             THEN /\ syncT' = [syncT EXCEPT !.pc = "done", !.err = res.err]
                  /\ gCtx' = GroupFail(res.err)
             ELSE /\ syncT' = [AfterFetch(syncT, res) EXCEPT
                                 !.pc = IF res.data = NoData THEN "setReady" ELSE "initStore"]
                  /\ UNCHANGED gCtx
    /\ UNCHANGED <<mu, client, redis, uri, conn, doc, docChanges, LastSHA, ready, cronState, ticks, cron, resync,
                   dataSync, cons, start, applied, overlaps>>

SyncInitFetch == SyncInitFetchIn(FetchResults(gCtx.cancelled))

(* Variant: the scheduler is started as soon as the initial fetch has its  *)
(* payload, before the event is sent and readiness is set.                 *)
SyncInitStoreStartsCron ==
    /\ syncT.pc = "initStore"
    /\ LastSHA' = generateSHA(syncT.data)
    /\ cronState' = "running"
    /\ syncT' = [syncT EXCEPT !.pc = "initSend"]
    /\ UNCHANGED <<mu, client, redis, uri, conn, doc, docChanges, ready, ticks, cron, resync, dataSync, cons,
                   start, gCtx, applied, lastFetched, overlaps>>

(* rs.LastSHA = rs.generateSHA(convertedJSON), and fetchData returns *)
SyncInitStore ==
    /\ syncT.pc = "initStore"
    /\ LastSHA' = generateSHA(syncT.data)
    /\ syncT' = [syncT EXCEPT !.pc = "initSend"]
    /\ UNCHANGED <<mu, client, redis, uri, conn, doc, docChanges, ready, cronState, ticks, cron, resync, dataSync, cons,
                   start, gCtx, applied, lastFetched, overlaps>>

(* if data != "" { dataSync <- sync.DataSync{...} } *)
SyncInitSend ==
    /\ syncT.pc = "initSend"
    /\ Len(dataSync) < ChanCap
    /\ dataSync' = Append(dataSync, DataSync(syncT.data))
    /\ syncT' = [syncT EXCEPT !.pc = "setReady", !.sent = syncT.data]
    /\ UNCHANGED <<mu, client, redis, uri, conn, doc, docChanges, LastSHA, ready, cronState, ticks, cron, resync, cons,
                   start, gCtx, applied, lastFetched, overlaps>>

(* rs.ready = true *)
SyncSetReady ==
    /\ syncT.pc = "setReady"
    /\ ready' = TRUE
    /\ syncT' = [IdleCycle EXCEPT !.pc = "cronStart"]
    /\ UNCHANGED <<mu, client, redis, uri, conn, doc, docChanges, LastSHA, cronState, ticks, cron, resync, dataSync, cons,
                   start, gCtx, applied, lastFetched, overlaps>>

(* rs.Cron.Start() *)
SyncCronStart ==
    /\ syncT.pc = "cronStart"
    /\ cronState' = "running"
    /\ syncT' = [syncT EXCEPT !.pc = "wait"]
    /\ UNCHANGED <<mu, client, redis, uri, conn, doc, docChanges, LastSHA, ready, ticks, cron, resync, dataSync, cons,
                   start, gCtx, applied, lastFetched, overlaps>>

(* <-ctx.Done() *)
SyncWait ==
    /\ syncT.pc = "wait"
    /\ gCtx.cancelled
    /\ syncT' = [syncT EXCEPT !.pc = "cronStop"]
    /\ UNCHANGED <<mu, client, redis, uri, conn, doc, docChanges, LastSHA, ready, cronState, ticks, cron, resync,
                   dataSync, cons, start, gCtx, applied, lastFetched, overlaps>>

(* Variant: stopping the trigger also clears the readiness flag.           *)
SyncCronStopClearsReady ==
    /\ syncT.pc = "cronStop"
    /\ cronState' = "stopped"
    /\ ready' = FALSE
    /\ syncT' = [syncT EXCEPT !.pc = "done", !.err = "nil"]
    /\ UNCHANGED <<mu, client, redis, uri, conn, doc, docChanges, LastSHA, ticks, cron, resync, dataSync, cons,
                   start, gCtx, applied, lastFetched, overlaps>>

(* rs.Cron.Stop(); return nil *)
SyncCronStop ==
    /\ syncT.pc = "cronStop"
    /\ cronState' = "stopped"
    /\ syncT' = [syncT EXCEPT !.pc = "done", !.err = "nil"]
    /\ UNCHANGED <<mu, client, redis, uri, conn, doc, docChanges, LastSHA, ready, ticks, cron, resync, dataSync, cons,
                   start, gCtx, applied, lastFetched, overlaps>>

----------------------------------------------------------------------------
(* The cron callback installed by Sync.Sync; the scheduler runs every      *)
(* firing in a goroutine of its own.                                       *)

(* The slot a new firing takes: the lowest one not in use. *)
FreeCron(c) == cron[c].pc = "idle" /\ \A d \in Crons : d < c => cron[d].pc # "idle"

(* if previousSHA == "" {send} else if previousSHA != rs.LastSHA {send} *)
(* Variant: the callback emits after every successful non-empty fetch.     *)
ShouldEmitAlways(previousSHA, currentSHA) == TRUE

(* Variant: the callback lacks the `previousSHA == ""` branch.             *)
ShouldEmitChangedOnly(previousSHA, currentSHA) ==
    previousSHA # NoSHA /\ previousSHA # currentSHA

ShouldEmit(previousSHA, currentSHA) ==
    previousSHA = NoSHA \/ previousSHA # currentSHA

(* The entry fires: previousSHA := rs.LastSHA *)
FireEntry(c) ==
    /\ cronState = "running"
    /\ conn.Entries # <<>>
    /\ FreeCron(c)
    /\ cron' = [cron EXCEPT ![c] = BeginCycle]
    /\ overlaps' = OverlapsAtBegin("cron")
    /\ UNCHANGED <<mu, client, redis, uri, conn, doc, docChanges, LastSHA, ready, cronState, syncT, resync, dataSync,
                   cons, start, gCtx, applied, lastFetched>>

(* A firing, counted against the bound on firings *)
CronFire(c) ==
    /\ ticks < MaxTicks
    /\ ticks' = ticks + 1
    /\ FireEntry(c)

(* A variant in which a fetch that finds no document clears the fingerprint *)
CronFetchInClearsOnEmpty(c, results) ==
    /\ cron[c].pc = "fetch"
    /\ \E res \in results :
          /\ cron' = [cron EXCEPT ![c] = AfterFetch(cron[c], res)]
          /\ lastFetched' = LastFetchedAfter(res)
          /\ LastSHA' = IF res.err = "nil" /\ res.data = NoData THEN NoSHA ELSE LastSHA
    /\ UNCHANGED <<mu, client, redis, uri, conn, doc, docChanges, ready, cronState, ticks, syncT, resync,
                   dataSync, cons, start, gCtx, applied, overlaps>>

(* data, err := rs.fetchData(ctx); on an error or an empty payload the     *)
(* callback returns.                                                       *)
CronFetchIn(c, results) ==
    /\ cron[c].pc = "fetch"
    /\ \E res \in results :
          /\ cron' = [cron EXCEPT ![c] = AfterFetch(cron[c], res)]
          /\ lastFetched' = LastFetchedAfter(res)
    /\ UNCHANGED <<mu, client, redis, uri, conn, doc, docChanges, LastSHA, ready, cronState, ticks, syncT, resync,
                   dataSync, cons, start, gCtx, applied, overlaps>>

CronFetch(c) == CronFetchIn(c, FetchResults(gCtx.cancelled))

(* rs.LastSHA = rs.generateSHA(convertedJSON), and fetchData returns *)
CronStore(c) ==
    /\ cron[c].pc = "store"
    /\ LastSHA' = generateSHA(cron[c].data)
    /\ cron' = [cron EXCEPT ![c].pc = "decide"]
    /\ UNCHANGED <<mu, client, redis, uri, conn, doc, docChanges, ready, cronState, ticks, syncT, resync, dataSync,
                   cons, start, gCtx, applied, lastFetched, overlaps>>

(* The comparison of previousSHA with rs.LastSHA *)
CronDecide(c) ==
    /\ cron[c].pc = "decide"
    /\ cron' = [cron EXCEPT ![c].pc =
                  IF ShouldEmit(cron[c].prev, LastSHA) THEN "send" ELSE "ret"]
    /\ UNCHANGED <<mu, client, redis, uri, conn, doc, docChanges, LastSHA, ready, cronState, ticks, syncT, resync,
                   dataSync, cons, start, gCtx, applied, lastFetched, overlaps>>

(* Variant: the queue is unbounded, the send never blocks.                 *)
CronSendUnbounded(c) ==
    /\ cron[c].pc = "send"
    /\ dataSync' = Append(dataSync, DataSync(cron[c].data))
    /\ cron' = [cron EXCEPT ![c].pc = "ret", ![c].sent = cron[c].data]
    /\ UNCHANGED <<mu, client, redis, uri, conn, doc, docChanges, LastSHA, ready, cronState, ticks, syncT, resync,
                   cons, start, gCtx, applied, lastFetched, overlaps>>

(* dataSync <- sync.DataSync{FlagData: data, Source: rs.URI} *)
CronSend(c) ==
    /\ cron[c].pc = "send"
    /\ Len(dataSync) < ChanCap
    /\ dataSync' = Append(dataSync, DataSync(cron[c].data))
    /\ cron' = [cron EXCEPT ![c].pc = "ret", ![c].sent = cron[c].data]
    /\ UNCHANGED <<mu, client, redis, uri, conn, doc, docChanges, LastSHA, ready, cronState, ticks, syncT, resync,
                   cons, start, gCtx, applied, lastFetched, overlaps>>

(* The callback returns and its goroutine ends. *)
CronReturn(c) ==
    /\ cron[c].pc = "ret"
    /\ cron' = [cron EXCEPT ![c] = IdleCycle]
    /\ UNCHANGED <<mu, client, redis, uri, conn, doc, docChanges, LastSHA, ready, cronState, ticks, syncT, resync,
                   dataSync, cons, start, gCtx, applied, lastFetched, overlaps>>

----------------------------------------------------------------------------
(* Sync.ReSync, run by the goroutine of updateStoreFromSyncData with       *)
(* context.Background() and a channel of its own.                          *)

(* Variant: ReSync logs a fetch error and returns nil.                     *)
ResyncFetchSwallows(r, results) ==
    /\ resync[r].cyc.pc = "fetch"
    /\ \E res \in results :
          /\ resync' = [resync EXCEPT ![r].cyc =
                          [AfterFetch(resync[r].cyc, res) EXCEPT !.err = "nil"]]
          /\ lastFetched' = LastFetchedAfter(res)
    /\ UNCHANGED <<mu, client, redis, uri, conn, doc, docChanges, LastSHA, ready, cronState, ticks, syncT, cron,
                   dataSync, cons, start, gCtx, applied, overlaps>>

(* data, err := rs.fetchData(ctx); an error is returned to the goroutine,  *)
(* which logs it.                                                          *)
ResyncFetchIn(r, results) ==
    /\ resync[r].cyc.pc = "fetch"
    /\ \E res \in results :
          /\ resync' = [resync EXCEPT ![r].cyc =
                          IF res.err = "nil" /\ res.data = NoData
                          THEN [resync[r].cyc EXCEPT !.pc = "ret"]
                          ELSE AfterFetch(resync[r].cyc, res)]
          /\ lastFetched' = LastFetchedAfter(res)
    /\ UNCHANGED <<mu, client, redis, uri, conn, doc, docChanges, LastSHA, ready, cronState, ticks, syncT, cron,
                   dataSync, cons, start, gCtx, applied, overlaps>>

ResyncFetch(r) == ResyncFetchIn(r, FetchResults(FALSE))

ResyncStore(r) ==
    /\ resync[r].cyc.pc = "store"
    /\ LastSHA' = generateSHA(resync[r].cyc.data)
    /\ resync' = [resync EXCEPT ![r].cyc.pc = "send"]
    /\ UNCHANGED <<mu, client, redis, uri, conn, doc, docChanges, ready, cronState, ticks, syncT, cron, dataSync,
                   cons, start, gCtx, applied, lastFetched, overlaps>>

(* if data != "" { dataSync <- ... }: the send into the channel ReSync was given *)
ResyncSend(r) ==
    /\ resync[r].cyc.pc = "send"
    /\ Len(resync[r].ch) < ChanCap
    /\ resync' = [resync EXCEPT ![r].cyc.pc = "ret",
                                ![r].cyc.sent = resync[r].cyc.data,
                                ![r].ch = Append(resync[r].ch, DataSync(resync[r].cyc.data))]
    /\ UNCHANGED <<mu, client, redis, uri, conn, doc, docChanges, LastSHA, ready, cronState, ticks, syncT, cron,
                   dataSync, cons, start, gCtx, applied, lastFetched, overlaps>>

(* ReSync returns, the goroutine ends and nothing refers to its channel any more. *)
ResyncReturn(r) ==
    /\ resync[r].cyc.pc = "ret"
    /\ resync' = [resync EXCEPT ![r] = [cyc |-> IdleCycle, ch |-> <<>>]]
    /\ UNCHANGED <<mu, client, redis, uri, conn, doc, docChanges, LastSHA, ready, cronState, ticks, syncT, cron,
                   dataSync, cons, start, gCtx, applied, lastFetched, overlaps>>

----------------------------------------------------------------------------
(* Service.processSyncData *)

(* case data := <-dataSync *)
ConsRecv ==
    /\ cons.pc = "recv"
    /\ dataSync # <<>>
    /\ cons' = [ConsAt("lock") EXCEPT !.data = Head(dataSync).FlagData,
                                      !.src = Head(dataSync).Source]
    /\ dataSync' = Tail(dataSync)
    /\ UNCHANGED <<mu, client, redis, uri, conn, doc, docChanges, LastSHA, ready, cronState, ticks, syncT, cron,
                   resync, start, gCtx, applied, lastFetched, overlaps>>

(* case <-ctx.Done(): return nil *)
ConsExit ==
    /\ cons.pc = "recv"
    /\ gCtx.cancelled
    /\ cons' = ConsAt("done")
    /\ UNCHANGED <<mu, client, redis, uri, conn, doc, docChanges, LastSHA, ready, cronState, ticks, syncT, cron,
                   resync, dataSync, start, gCtx, applied, lastFetched, overlaps>>

(* A variant of Lock that does not wait for the readers *)
ConsLockIgnoresReaders ==
    /\ cons.pc = "lock"
    /\ mu.writers = 0
    /\ mu' = [mu EXCEPT !.writers = mu.writers + 1]
    /\ cons' = [cons EXCEPT !.pc = "update"]
    /\ UNCHANGED <<client, redis, uri, conn, doc, docChanges, LastSHA, ready, cronState, ticks, syncT, cron,
                   resync, dataSync, start, gCtx, applied, lastFetched, overlaps>>

(* s.mu.Lock() in updateStoreFromSyncData: waits for the lock to be free *)
ConsLock ==
    /\ cons.pc = "lock"
    /\ mu.writers = 0 /\ mu.readers = 0
    /\ mu' = [mu EXCEPT !.writers = mu.writers + 1]
    /\ cons' = [cons EXCEPT !.pc = "update"]
    /\ UNCHANGED <<client, redis, uri, conn, doc, docChanges, LastSHA, ready, cronState, ticks, syncT, cron,
                   resync, dataSync, start, gCtx, applied, lastFetched, overlaps>>

(* The slot a new ReSync goroutine takes *)
FreeResync(r) ==
    resync[r].cyc.pc = "idle" /\ \A q \in Resyncs : q < r => resync[q].cyc.pc # "idle"

(* A variant in which a failed update ends the loop *)
ConsUpdateOutFailStops(outs) ==
    /\ cons.pc = "update"
    /\ mu' = [mu EXCEPT !.writers = mu.writers - 1]
    /\ IF cons.data = NoData
       THEN /\ cons' = [cons EXCEPT !.pc = "notify", !.upd = "skipped"]
            /\ UNCHANGED <<applied, resync, overlaps>>
       ELSE \E out \in outs :
          CASE out = "err" ->
                 /\ cons' = [cons EXCEPT !.pc = "done", !.upd = "err"]
                 /\ UNCHANGED <<applied, resync, overlaps>>
            [] out = "ok" ->
                 /\ cons' = [cons EXCEPT !.pc = "notify", !.upd = "ok"]
                 /\ applied' = cons.data
                 /\ UNCHANGED <<resync, overlaps>>
            [] out = "resync" ->
                 /\ cons' = [cons EXCEPT !.pc = "notify", !.upd = "ok"]
                 /\ applied' = cons.data
                 /\ \E r \in Resyncs :
                       /\ FreeResync(r)
                       /\ resync' = [resync EXCEPT ![r] = [cyc |-> BeginCycle, ch |-> <<>>]]
                 /\ overlaps' = OverlapsAtBegin("resync")
    /\ UNCHANGED <<client, redis, uri, conn, doc, docChanges, LastSHA, ready, cronState, ticks, syncT, cron,
                   dataSync, start, gCtx, lastFetched>>

(* A variant in which a failed update is notified like a successful one *)
ConsUpdateOutNotifiesFailure(outs) ==
    /\ cons.pc = "update"
    /\ mu' = [mu EXCEPT !.writers = mu.writers - 1]
    /\ IF cons.data = NoData
       THEN /\ cons' = [cons EXCEPT !.pc = "notify", !.upd = "skipped"]
            /\ UNCHANGED <<applied, resync, overlaps>>
       ELSE \E out \in outs :
          CASE out = "err" ->
                 /\ cons' = [cons EXCEPT !.pc = "notify", !.upd = "err"]
                 /\ UNCHANGED <<applied, resync, overlaps>>
            [] out = "ok" ->
                 /\ cons' = [cons EXCEPT !.pc = "notify", !.upd = "ok"]
                 /\ applied' = cons.data
                 /\ UNCHANGED <<resync, overlaps>>
            [] out = "resync" ->
                 /\ cons' = [cons EXCEPT !.pc = "notify", !.upd = "ok"]
                 /\ applied' = cons.data
                 /\ \E r \in Resyncs :
                       /\ FreeResync(r)
                       /\ resync' = [resync EXCEPT ![r] = [cyc |-> BeginCycle, ch |-> <<>>]]
                 /\ overlaps' = OverlapsAtBegin("resync")
    /\ UNCHANGED <<client, redis, uri, conn, doc, docChanges, LastSHA, ready, cronState, ticks, syncT, cron,
                   dataSync, start, gCtx, lastFetched>>

(* A variant in which a failed store update clears the fingerprint, so     *)
(* that the next cycle offers the payload again.                           *)
ConsUpdateOutResetsFingerprint(outs) ==
    /\ cons.pc = "update"
    /\ mu' = [mu EXCEPT !.writers = mu.writers - 1]
    /\ IF cons.data = NoData
       THEN /\ cons' = [cons EXCEPT !.pc = "notify", !.upd = "skipped"]
            /\ UNCHANGED <<applied, resync, overlaps, LastSHA>>
       ELSE \E out \in outs :
          CASE out = "err" ->
                 /\ cons' = [cons EXCEPT !.pc = "loop", !.upd = "err"]
                 /\ LastSHA' = NoSHA
                 /\ UNCHANGED <<applied, resync, overlaps>>
            [] out = "ok" ->
                 /\ cons' = [cons EXCEPT !.pc = "notify", !.upd = "ok"]
                 /\ applied' = cons.data
                 /\ UNCHANGED <<resync, overlaps, LastSHA>>
            [] out = "resync" ->
                 /\ cons' = [cons EXCEPT !.pc = "notify", !.upd = "ok"]
                 /\ applied' = cons.data
                 /\ \E r \in Resyncs :
                       /\ FreeResync(r)
                       /\ resync' = [resync EXCEPT ![r] = [cyc |-> BeginCycle, ch |-> <<>>]]
                 /\ overlaps' = OverlapsAtBegin("resync")
                 /\ UNCHANGED LastSHA
    /\ UNCHANGED <<client, redis, uri, conn, doc, docChanges, ready, cronState, ticks, syncT, cron,
                   dataSync, start, gCtx, lastFetched>>

(* The rest of updateStoreFromSyncData(data) and the branch on its error:  *)
(* empty flag data is skipped; evaluator.SetState fails, succeeds, or      *)
(* succeeds and asks for a resync, which starts the ReSync goroutine; the  *)
(* deferred Unlock; on an error the loop continues.                        *)
ConsUpdateOut(outs) ==
    /\ cons.pc = "update"
    /\ mu' = [mu EXCEPT !.writers = mu.writers - 1]
    /\ IF cons.data = NoData
       THEN /\ cons' = [cons EXCEPT !.pc = "notify", !.upd = "skipped"]
            /\ UNCHANGED <<applied, resync, overlaps>>
       ELSE \E out \in outs :
          CASE out = "err" ->
                 /\ cons' = [cons EXCEPT !.pc = "loop", !.upd = "err"]
                 /\ UNCHANGED <<applied, resync, overlaps>>
            [] out = "ok" ->
                 /\ cons' = [cons EXCEPT !.pc = "notify", !.upd = "ok"]
                 /\ applied' = cons.data
                 /\ UNCHANGED <<resync, overlaps>>
            [] out = "resync" ->
                 /\ cons' = [cons EXCEPT !.pc = "notify", !.upd = "ok"]
                 /\ applied' = cons.data
                 /\ \E r \in Resyncs :
                       /\ FreeResync(r)
                       /\ resync' = [resync EXCEPT ![r] = [cyc |-> BeginCycle, ch |-> <<>>]]
                 /\ overlaps' = OverlapsAtBegin("resync")
    /\ UNCHANGED <<client, redis, uri, conn, doc, docChanges, LastSHA, ready, cronState, ticks, syncT, cron,
                   dataSync, start, gCtx, lastFetched>>

ConsUpdate == ConsUpdateOut({"resync", "err", "ok"})

(* A variant in which the notification waits for a running ReSync *)
ConsNotifyWaitsResync ==
    /\ cons.pc = "notify"
    /\ BusyResyncs = {}
    /\ cons' = [cons EXCEPT !.pc = "loop", !.emit = cons.src]
    /\ UNCHANGED <<mu, client, redis, uri, conn, doc, docChanges, LastSHA, ready, cronState, ticks, syncT, cron,
                   resync, dataSync, start, gCtx, applied, lastFetched, overlaps>>

(* s.syncService.Emit(false, data.Source) *)
ConsNotify ==
    /\ cons.pc = "notify"
    /\ cons' = [cons EXCEPT !.pc = "loop", !.emit = cons.src]
    /\ UNCHANGED <<mu, client, redis, uri, conn, doc, docChanges, LastSHA, ready, cronState, ticks, syncT, cron,
                   resync, dataSync, start, gCtx, applied, lastFetched, overlaps>>

(* The end of the loop body: back to the select *)
ConsLoop ==
    /\ cons.pc = "loop"
    /\ cons' = ConsAt("recv")
    /\ UNCHANGED <<mu, client, redis, uri, conn, doc, docChanges, LastSHA, ready, cronState, ticks, syncT, cron,
                   resync, dataSync, start, gCtx, applied, lastFetched, overlaps>>

----------------------------------------------------------------------------
Next ==
    \/ WriteDoc
    \/ Shutdown
    \/ StartInit
    \/ SvcFail
    \/ StartReturn
    \/ SyncAddFunc
    \/ SyncInitFetch
    \/ SyncInitStore
    \/ SyncInitSend
    \/ SyncSetReady
    \/ SyncCronStart
    \/ SyncWait
    \/ SyncCronStop
    \/ \E c \in Crons : CronFire(c)
    \/ \E c \in Crons : CronFetch(c)
    \/ \E c \in Crons : CronStore(c)
    \/ \E c \in Crons : CronDecide(c)
    \/ \E c \in Crons : CronSend(c)
    \/ \E c \in Crons : CronReturn(c)
    \/ \E r \in Resyncs : ResyncFetch(r)
    \/ \E r \in Resyncs : ResyncStore(r)
    \/ \E r \in Resyncs : ResyncSend(r)
    \/ \E r \in Resyncs : ResyncReturn(r)
    \/ ConsRecv
    \/ ConsExit
    \/ ConsLock
    \/ ConsUpdate
    \/ ConsNotify
    \/ ConsLoop

Spec == Init /\ [][Next]_vars

----------------------------------------------------------------------------
(* The service in a healthy environment, running: Redis answers every      *)
(* command, the ping and evaluator.SetState succeed, and the context is    *)
(* not cancelled.                                                          *)

HealthyStartInit == StartInitPing({"ok"})
HealthySyncInitFetch == SyncInitFetchIn(HealthyResults(gCtx.cancelled))
HealthyCronFetch(c) == CronFetchIn(c, HealthyResults(gCtx.cancelled))
HealthyResyncFetch(r) == ResyncFetchIn(r, HealthyResults(FALSE))
HealthyConsUpdate == ConsUpdateOut({"resync", "ok"})

HealthyNext ==
    \/ WriteDoc
    \/ HealthyStartInit
    \/ SyncAddFunc
    \/ HealthySyncInitFetch
    \/ SyncInitStore
    \/ SyncInitSend
    \/ SyncSetReady
    \/ SyncCronStart
    \/ \E c \in Crons : CronFire(c)
    \/ \E c \in Crons : HealthyCronFetch(c)
    \/ \E c \in Crons : CronStore(c)
    \/ \E c \in Crons : CronDecide(c)
    \/ \E c \in Crons : CronSend(c)
    \/ \E c \in Crons : CronReturn(c)
    \/ \E r \in Resyncs : HealthyResyncFetch(r)
    \/ \E r \in Resyncs : ResyncStore(r)
    \/ \E r \in Resyncs : ResyncSend(r)
    \/ \E r \in Resyncs : ResyncReturn(r)
    \/ ConsRecv
    \/ ConsLock
    \/ HealthyConsUpdate
    \/ ConsNotify
    \/ ConsLoop

HealthySpec == Init /\ [][HealthyNext]_vars

----------------------------------------------------------------------------
(* Properties of the emission rule.                                        *)

(* A cycle that fetched a payload and has passed the emission decision *)
CronFinished(c) == cron[c].pc = "ret" /\ cron[c].err = "nil" /\ cron[c].data # NoData

(* C1: when cycles run one after the other, a periodic cycle whose         *)
(* successful non-empty fetch yields the same normalized payload as the    *)
(* successful non-empty fetch before it emits no event: it never waits to  *)
(* send, and it finishes without having sent.                              *)
C1_RepeatedPayloadNotEmitted ==
    \A c \in Crons :
        ( /\ overlaps = {}
          /\ cron[c].pc \in {"decide", "send", "ret"}
          /\ cron[c].data # NoData
          /\ cron[c].pred = cron[c].data )
        => /\ cron[c].pc # "send"
           /\ cron[c].sent = NoData

C1_Witness ==
    \E c \in Crons :
        /\ overlaps = {}
        /\ CronFinished(c)
        /\ cron[c].pred = cron[c].data
        /\ cron[c].sent = NoData

(* C2: a periodic cycle whose fetched payload has a fingerprint different  *)
(* from the one stored when the cycle began emits one event carrying the   *)
(* new payload.                                                            *)
C2_ChangedPayloadEmitted ==
    \A c \in Crons :
        (CronFinished(c) /\ generateSHA(cron[c].data) # cron[c].prev)
        => cron[c].sent = cron[c].data

(* C3: a cycle that begins with the fingerprint unset and fetches a        *)
(* non-empty payload emits one event carrying that payload, in Sync's      *)
(* initial cycle, in a periodic cycle and in ReSync.                       *)
C3_FirstFetchEmits ==
    /\ (syncT.pc = "setReady" /\ syncT.data # NoData) => syncT.sent = syncT.data
    /\ \A c \in Crons :
           (CronFinished(c) /\ cron[c].prev = NoSHA) => cron[c].sent = cron[c].data
    /\ \A r \in Resyncs :
           (resync[r].cyc.pc = "ret" /\ resync[r].cyc.data # NoData)
           => /\ resync[r].cyc.sent = resync[r].cyc.data
              /\ resync[r].ch = <<DataSync(resync[r].cyc.data)>>

C3_Witness ==
    \E c \in Crons :
        /\ CronFinished(c)
        /\ cron[c].prev = NoSHA
        /\ cron[c].sent = cron[c].data
        /\ syncT.pc = "wait"

----------------------------------------------------------------------------
(* Properties of delivery to the consumer.                                 *)

(* The normalized form of the document now in the store *)
CurrentPayload == ConvertToJSON(doc).json

(* Nothing is on its way: no cycle between its fetch and its return, no    *)
(* event in the queue, the consumer loop waiting in its select.            *)
Quiescent ==
    /\ \A c \in Crons : cron[c].pc = "idle"
    /\ \A r \in Resyncs : resync[r].cyc.pc = "idle"
    /\ syncT.pc = "wait"
    /\ dataSync = <<>>
    /\ cons.pc = "recv"

(* C4: in a healthy run whose cycles ran one after the other, once the     *)
(* Poller's fingerprint is that of the document in the store (so no later  *)
(* cycle will emit it again) and nothing is on its way, the payload last   *)
(* applied by the consumer loop is that document.                          *)
C4_DetectedChangeApplied ==
    ( /\ Quiescent
      /\ ~gCtx.cancelled
      /\ overlaps = {}
      /\ ConvertToJSON(doc).err = "nil"
      /\ CurrentPayload # NoData
      /\ LastSHA = generateSHA(CurrentPayload) )
    => applied = CurrentPayload

(* C5: no emitted event sits in a channel other than the queue the         *)
(* consumer loop reads.                                                    *)
C5_EveryEventInQueue ==
    \A r \in Resyncs : resync[r].ch = <<>>

(* C6: when a ReSync and periodic cycles have interleaved and all cycles   *)
(* have finished, the stored fingerprint is the hash of the payload that   *)
(* was fetched last.                                                       *)
C6_FingerprintOfLastFetch ==
    ( /\ CyclesInProgress = 0
      /\ overlaps = {"cron-resync"}
      /\ lastFetched # NoData )
    => LastSHA = generateSHA(lastFetched)

----------------------------------------------------------------------------
(* Properties of cancellation.                                             *)

(* C8: Sync does not return the cancellation as an error, and Start does   *)
(* not return it.                                                          *)
C8_CancellationNotFailure ==
    /\ syncT.pc = "done" => syncT.err # "ctx"
    /\ start.pc = "returned" => start.err # "ctx"

(* C9: once the context is cancelled no step adds an event to the queue,   *)
(* and once the trigger is stopped no periodic cycle begins.               *)
C9_NoEmissionAfterCancel ==
    [][ /\ gCtx.cancelled => Len(dataSync') <= Len(dataSync)
        /\ cronState = "stopped" =>
              \A c \in Crons : cron'[c].pc = "fetch" => cron[c].pc = "fetch" ]_vars

(* A step of one of the service's tasks (not of its environment) *)
TaskStep ==
    \/ StartInit
    \/ StartReturn
    \/ SyncAddFunc \/ SyncInitFetch \/ SyncInitStore \/ SyncInitSend
    \/ SyncSetReady \/ SyncCronStart \/ SyncWait \/ SyncCronStop
    \/ \E c \in Crons :
          CronFire(c) \/ CronFetch(c) \/ CronStore(c) \/ CronDecide(c)
          \/ CronSend(c) \/ CronReturn(c)
    \/ \E r \in Resyncs :
          ResyncFetch(r) \/ ResyncStore(r) \/ ResyncSend(r) \/ ResyncReturn(r)
    \/ ConsRecv \/ ConsExit \/ ConsLock \/ ConsUpdate \/ ConsNotify \/ ConsLoop

(* Every task that was started has returned *)
AllReturned ==
    /\ syncT.pc \in {"new", "done"}
    /\ cons.pc \in {"new", "done"}
    /\ \A c \in Crons : cron[c].pc = "idle"

(* C10: after cancellation, when no task can take a step any more, Sync,   *)
(* the consumer loop and every periodic callback have returned.            *)
C10_AllTasksReturn ==
    (gCtx.cancelled /\ ~ENABLED TaskStep) => AllReturned

----------------------------------------------------------------------------
(* Properties of failure handling.                                         *)

(* C11: when a sibling of Start returns an error the shared context is     *)
(* cancelled, and when no task can take a step any more Sync and the       *)
(* consumer loop have returned and Start has returned a non-nil error; a   *)
(* failed initial fetch is such an error.                                  *)
C11_SiblingFailureStopsGroup ==
    /\ gCtx.err # "nil" => gCtx.cancelled
    /\ (syncT.pc = "done" /\ syncT.err # "nil") => gCtx.err # "nil"
    /\ (start.pc = "returned" /\ gCtx.err # "nil") => start.err # "nil"
    /\ (gCtx.err # "nil" /\ ~ENABLED TaskStep)
       => /\ syncT.pc = "done"
          /\ cons.pc = "done"
          /\ start.pc = "returned"
          /\ start.err # "nil"

C11_Witness ==
    /\ start.pc = "returned"
    /\ start.err \in {"redis", "conv"}
    /\ syncT.pc = "done" /\ syncT.err = start.err
    /\ cons.pc = "done"

(* C12: when the fetch of Sync's initial cycle fails, Sync returns the     *)
(* error at once (a document that cannot be converted always fails), and   *)
(* from then on the trigger is not started, no event has been emitted, no  *)
(* fingerprint is stored and readiness is false.                           *)
C12_InitialFetchFailureFatal ==
    /\ []( (syncT.pc = "done" /\ syncT.err # "nil")
           => /\ cronState = "added"
              /\ ~ready
              /\ dataSync = <<>>
              /\ applied = NoData
              /\ LastSHA = NoSHA
              /\ \A c \in Crons : cron[c].pc = "idle" )
    /\ [][ (syncT.pc = "initFetch" /\ syncT'.pc # "initFetch" /\ doc = "bad")
           => (syncT'.pc = "done" /\ syncT'.err # "nil") ]_vars

C12_Witness ==
    /\ syncT.pc = "done"
    /\ syncT.err = "conv"
    /\ start.pc = "returned"

(* C13: a periodic cycle whose fetch fails emits nothing, leaves readiness *)
(* true and leaves Sync waiting with the trigger running; and a successful *)
(* periodic cycle that runs after a failed one and fetches a payload       *)
(* different from the last successfully fetched one emits its event.       *)
C13_PeriodicFailureSwallowed ==
    /\ \A c \in Crons :
          (cron[c].pc = "ret" /\ cron[c].err # "nil")
          => /\ cron[c].sent = NoData
             /\ ready
             /\ ~gCtx.cancelled => (syncT.pc = "wait" /\ cronState = "running")
    /\ \A c, d \in Crons :
          ( /\ d < c
            /\ overlaps \subseteq {"cron-resync"}
            /\ cron[d].pc = "ret" /\ cron[d].err # "nil"
            /\ CronFinished(c)
            /\ cron[c].data # cron[c].pred )
          => cron[c].sent = cron[c].data

----------------------------------------------------------------------------
(* Properties of readiness.                                                *)

(* Sync.IsReady, which Service.IsReady returns *)
IsReady == ready

(* C14: once IsReady returns true it returns true after every later step.  *)
C14_ReadinessLatch ==
    [][IsReady => IsReady']_vars

C14_Witness ==
    /\ IsReady
    /\ gCtx.cancelled
    /\ syncT.pc = "done"
    /\ \E c \in Crons : cron[c].pc = "ret" /\ cron[c].err # "nil"
    /\ \E r \in Resyncs : resync[r].cyc.pc = "ret"

(* C15: IsReady is false from construction until Sync's initial cycle has  *)
(* completed successfully and rs.ready is set, and true from then on,      *)
(* also when the initial cycle found no payload and emitted nothing.       *)
C15_ReadyAfterInitialCycle ==
    IsReady <=> \/ syncT.pc \in {"cronStart", "wait", "cronStop"}
                \/ (syncT.pc = "done" /\ syncT.err = "nil")

C15_Witness ==
    /\ IsReady
    /\ syncT.pc = "cronStart"
    /\ LastSHA = NoSHA
    /\ lastFetched = NoData
    /\ dataSync = <<>>
    /\ applied = NoData

(* C16: after a ReSync that returned no error, IsReady is true.            *)
C16_ResyncMarksReady ==
    \A r \in Resyncs :
        (resync[r].cyc.pc = "ret" /\ resync[r].cyc.err = "nil") => IsReady

----------------------------------------------------------------------------
(* Properties of ReSync.                                                   *)

(* C17: a ReSync that fetches a payload whose fingerprint is the one       *)
(* stored when it began emits nothing.                                     *)
C17_ResyncEmitsOnlyChanges ==
    \A r \in Resyncs :
        ( /\ resync[r].cyc.pc = "ret"
          /\ resync[r].cyc.data # NoData
          /\ resync[r].cyc.prev = generateSHA(resync[r].cyc.data) )
        => resync[r].cyc.sent = NoData

(* C18: a ReSync whose fetch fails returns a non-nil error (a document     *)
(* that cannot be converted always fails); the failing fetch leaves the    *)
(* fingerprint, readiness and the queue as they were, and the ReSync ends  *)
(* without having emitted an event.                                        *)
C18_ResyncFailureReturned ==
    /\ [](\A r \in Resyncs :
             (resync[r].cyc.pc = "ret" /\ resync[r].cyc.err # "nil")
             => (resync[r].cyc.sent = NoData /\ resync[r].ch = <<>>))
    /\ [][\A r \in Resyncs :
             (resync[r].cyc.pc = "fetch" /\ resync'[r].cyc.pc # "fetch")
             => /\ doc = "bad" => resync'[r].cyc.err # "nil"
                /\ resync'[r].cyc.err # "nil"
                   => /\ LastSHA' = LastSHA
                      /\ ready' = ready
                      /\ dataSync' = dataSync
                      /\ resync'[r].ch = <<>>]_vars

C18_Witness ==
    \E r \in Resyncs :
        /\ resync[r].cyc.pc = "ret"
        /\ resync[r].cyc.err = "conv"
        /\ LastSHA # NoSHA

----------------------------------------------------------------------------
(* Properties of start-up and of the queue.                                *)

(* C19: when Init's Ping fails, Start returns that error and nothing else  *)
(* ever runs: Sync and the consumer loop are not started, the trigger is   *)
(* not installed, nothing is fetched or emitted and readiness is false.    *)
C19_InitFailureStopsStart ==
    (start.pc = "returned" /\ start.err = "init")
    => /\ syncT.pc = "new"
       /\ cons.pc = "new"
       /\ cronState = "new"
       /\ \A c \in Crons : cron[c].pc = "idle"
       /\ \A r \in Resyncs : resync[r].cyc.pc = "idle"
       /\ LastSHA = NoSHA
       /\ lastFetched = NoData
       /\ dataSync = <<>>
       /\ applied = NoData
       /\ ~IsReady

C19_Witness ==
    /\ start.pc = "returned"
    /\ start.err = "init"
    /\ ~gCtx.cancelled
    /\ docChanges = MaxDocChanges

(* C20: the queue never holds more than ChanCap events; a periodic cycle   *)
(* about to send into a full queue cannot take its send step; the queue    *)
(* changes only by a send appending one event while there is room or by    *)
(* the consumer loop taking the oldest event.                              *)
C20_QueueBoundedAndBlocking ==
    /\ [](Len(dataSync) <= ChanCap)
    /\ [](\A c \in Crons :
             (cron[c].pc = "send" /\ Len(dataSync) = ChanCap) => ~ENABLED CronSend(c))
    /\ [][dataSync' # dataSync
          => \/ /\ Len(dataSync) < ChanCap
                /\ \E d \in {"A", "B"} : dataSync' = Append(dataSync, DataSync(d))
             \/ /\ dataSync # <<>>
                /\ dataSync' = Tail(dataSync)
                /\ cons.pc = "recv"
                /\ cons'.pc = "lock"
                /\ cons'.data = Head(dataSync).FlagData]_vars

C20_Witness ==
    \E c \in Crons :
        /\ cron[c].pc = "send"
        /\ Len(dataSync) = ChanCap
        /\ cons.pc = "recv"

----------------------------------------------------------------------------
(* Construction of the service from any connection string.                 *)

CtorInit ==
    /\ ServiceInit
    /\ doc = ""
    /\ redis = AnyRedis
    /\ uri \in UriInputs
    /\ conn = NotConstructed

(* NewService: redis.NewRedisSync(cfg.RedisURI, cfg.Logger) *)
NewService ==
    /\ conn.err = "none"
    /\ \E interval \in Intervals : conn' = NewServiceSync(uri, interval)
    /\ UNCHANGED <<mu, client, redis, uri, doc, docChanges, LastSHA, ready, cronState, ticks, syncT, cron,
                   resync, dataSync, cons, start, gCtx, applied, lastFetched, overlaps>>

CtorNext == NewService

CtorSpec == CtorInit /\ [][CtorNext]_vars

----------------------------------------------------------------------------
(* The service against a Redis that answers JSON.GET and GET the same way *)
(* every time, for every such way.                                         *)

FixedRedis(raw) ==
    { [mode |-> "fixed", jr |-> jr, gr |-> gr] :
        jr \in CmdOutcomes(raw, FALSE), gr \in CmdOutcomes(raw, FALSE) }

FetchInit ==
    /\ ServiceInit
    /\ doc \in RawDocs
    /\ redis \in FixedRedis(doc)
    /\ uri = ServiceUri
    /\ conn = NewServiceSync(ServiceUri, DefaultInterval)

(* The key is written only when Redis does not report it missing *)
FetchWriteDoc ==
    /\ redis.jr # "Nil" /\ redis.gr # "Nil"
    /\ WriteDoc

FetchNext ==
    \/ FetchWriteDoc
    \/ Shutdown
    \/ StartInit
    \/ StartReturn
    \/ SyncAddFunc
    \/ SyncInitFetch
    \/ SyncInitStore
    \/ SyncInitSend
    \/ SyncSetReady
    \/ SyncCronStart
    \/ SyncWait
    \/ SyncCronStop
    \/ \E c \in Crons : CronFire(c)
    \/ \E c \in Crons : CronFetch(c)
    \/ \E c \in Crons : CronStore(c)
    \/ \E c \in Crons : CronDecide(c)
    \/ \E c \in Crons : CronSend(c)
    \/ \E c \in Crons : CronReturn(c)
    \/ \E r \in Resyncs : ResyncFetch(r)
    \/ \E r \in Resyncs : ResyncStore(r)
    \/ \E r \in Resyncs : ResyncSend(r)
    \/ \E r \in Resyncs : ResyncReturn(r)
    \/ ConsRecv
    \/ ConsExit
    \/ ConsLock
    \/ ConsUpdate
    \/ ConsNotify
    \/ ConsLoop

FetchSpec == FetchInit /\ [][FetchNext]_vars

----------------------------------------------------------------------------
(* The service while the key is deleted, or overwritten with text that     *)
(* does not convert, and written again with the same document, in either   *)
(* of its texts.                                                           *)

VanishInit ==
    /\ ServiceInit
    /\ doc = "rA"
    /\ redis = AnyRedis
    /\ uri = ServiceUri
    /\ conn = NewServiceSync(ServiceUri, DefaultInterval)

FlipKey ==
    /\ docChanges < MaxKeyFlips
    /\ docChanges' = docChanges + 1
    /\ IF doc \in {"", "bad"} THEN doc' \in {"rA", "rA2"} ELSE doc' \in {"", "bad"}
    /\ UNCHANGED <<mu, client, redis, uri, conn, LastSHA, ready, cronState, ticks, syncT, cron, resync, dataSync, cons,
                   start, gCtx, applied, lastFetched, overlaps>>

VanishNext ==
    \/ FlipKey
    \/ Shutdown
    \/ StartInit
    \/ StartReturn
    \/ SyncAddFunc
    \/ SyncInitFetch
    \/ SyncInitStore
    \/ SyncInitSend
    \/ SyncSetReady
    \/ SyncCronStart
    \/ SyncWait
    \/ SyncCronStop
    \/ \E c \in Crons : CronFire(c)
    \/ \E c \in Crons : CronFetch(c)
    \/ \E c \in Crons : CronStore(c)
    \/ \E c \in Crons : CronDecide(c)
    \/ \E c \in Crons : CronSend(c)
    \/ \E c \in Crons : CronReturn(c)
    \/ \E r \in Resyncs : ResyncFetch(r)
    \/ \E r \in Resyncs : ResyncStore(r)
    \/ \E r \in Resyncs : ResyncSend(r)
    \/ \E r \in Resyncs : ResyncReturn(r)
    \/ ConsRecv
    \/ ConsExit
    \/ ConsLock
    \/ ConsUpdate
    \/ ConsNotify
    \/ ConsLoop

VanishSpec == VanishInit /\ [][VanishNext]_vars

----------------------------------------------------------------------------
(* Service.GetFlagConfiguration, called by any number of query goroutines  *)
(* while the healthy service runs.  A reader may get the read lock while   *)
(* the consumer loop is on its way to Lock.                                *)

(* s.mu.RLock() *)
GetRLock ==
    /\ mu.readers < MaxReaders
    /\ mu.writers = 0
    /\ mu' = [mu EXCEPT !.readers = mu.readers + 1]
    /\ UNCHANGED <<client, redis, uri, conn, doc, docChanges, LastSHA, ready, cronState, ticks, syncT, cron,
                   resync, dataSync, cons, start, gCtx, applied, lastFetched, overlaps>>

(* flagStore.GetAll, json.Marshal and the deferred s.mu.RUnlock() *)
GetRUnlock ==
    /\ mu.readers > 0
    /\ mu' = [mu EXCEPT !.readers = mu.readers - 1]
    /\ UNCHANGED <<client, redis, uri, conn, doc, docChanges, LastSHA, ready, cronState, ticks, syncT, cron,
                   resync, dataSync, cons, start, gCtx, applied, lastFetched, overlaps>>

ReadersNext ==
    \/ HealthyNext
    \/ GetRLock
    \/ GetRUnlock

ReadersSpec == Init /\ [][ReadersNext]_vars

----------------------------------------------------------------------------
(* The methods of Sync a caller may use at any time, while the healthy     *)
(* service runs.  The key is not written here, so that after the initial   *)
(* cycle no periodic cycle finds a change to send.                         *)

(* A variant that also reschedules the installed trigger *)
SetIntervalReschedules(interval) ==
    /\ conn.err = "nil"
    /\ conn' = [conn EXCEPT !.Interval = interval,
                            !.Entries = IF conn.Entries = <<>> THEN <<>>
                                        ELSE <<CronSpec(interval)>>]
    /\ UNCHANGED <<mu, client, redis, uri, doc, docChanges, LastSHA, ready, cronState, ticks, syncT, cron,
                   resync, dataSync, cons, start, gCtx, applied, lastFetched, overlaps>>

(* Sync.SetInterval(interval) *)
SetInterval(interval) ==
    /\ conn.err = "nil"
    /\ conn' = [conn EXCEPT !.Interval = interval]
    /\ UNCHANGED <<mu, client, redis, uri, doc, docChanges, LastSHA, ready, cronState, ticks, syncT, cron,
                   resync, dataSync, cons, start, gCtx, applied, lastFetched, overlaps>>

(* What Client.Close returns: nil when it closes the pool, the error of a  *)
(* closed client when the pool is closed already.                          *)
ClientClose(c) == IF c.st = "open" THEN "nil" ELSE "client is closed"

(* Sync.Close(): rs.Client is set by NewRedisSync, so Client.Close is called *)
Close ==
    /\ client.calls < MaxCloseCalls
    /\ client' = [st |-> "closed", calls |-> client.calls + 1, ret |-> ClientClose(client)]
    /\ UNCHANGED <<mu, conn, redis, uri, doc, docChanges, LastSHA, ready, cronState, ticks, syncT, cron,
                   resync, dataSync, cons, start, gCtx, applied, lastFetched, overlaps>>

ApiInit ==
    /\ ServiceInit
    /\ doc = "rA"
    /\ redis = AnyRedis
    /\ uri = ServiceUri
    /\ conn = NewServiceSync(ServiceUri, DefaultInterval)

ApiNext ==
    \/ \E interval \in Intervals : SetInterval(interval)
    \/ Close
    \/ Shutdown
    \/ HealthyStartInit
    \/ StartReturn
    \/ SyncAddFunc
    \/ HealthySyncInitFetch
    \/ SyncInitStore
    \/ SyncInitSend
    \/ SyncSetReady
    \/ SyncCronStart
    \/ SyncWait
    \/ SyncCronStop
    \/ \E c \in Crons : CronFire(c)
    \/ \E c \in Crons : HealthyCronFetch(c)
    \/ \E c \in Crons : CronStore(c)
    \/ \E c \in Crons : CronDecide(c)
    \/ \E c \in Crons : CronReturn(c)
    \/ \E r \in Resyncs : HealthyResyncFetch(r)
    \/ \E r \in Resyncs : ResyncStore(r)
    \/ \E r \in Resyncs : ResyncSend(r)
    \/ \E r \in Resyncs : ResyncReturn(r)
    \/ ConsRecv
    \/ ConsExit
    \/ ConsLock
    \/ HealthyConsUpdate
    \/ ConsNotify
    \/ ConsLoop

ApiSpec == ApiInit /\ [][ApiNext]_vars

----------------------------------------------------------------------------
(* Properties of the consumer loop.                                        *)

(* C21: when the store update for an event fails, the consumer loop does   *)
(* not return and does not notify the fan-out for that event: it is at the *)
(* end of the loop body, from where it goes back to its select.            *)
C21_UpdateFailureContinues ==
    /\ [](cons.upd = "err"
            => cons.pc = "loop" /\ cons.emit = NoSource /\ ENABLED ConsLoop)
    /\ [][(cons.upd = "err" /\ cons' # cons)
            => cons' = ConsAt("recv")]_vars
    /\ []((cons.pc = "recv" /\ dataSync # <<>>) => ENABLED ConsRecv)

C21_Witness ==
    /\ cons.pc = "loop"
    /\ cons.upd = "err"
    /\ dataSync # <<>>

(* C22: for every event the consumer loop takes from the queue, the fan-out *)
(* is notified once, with the event's source, exactly when the store update *)
(* was applied to the event and returned no error, and never before the     *)
(* update.                                                                  *)
C22_NotifyIffUpdated ==
    /\ [](cons.emit # NoSource
            => cons.pc = "loop" /\ cons.upd = "ok" /\ cons.emit = cons.src)
    /\ [](cons.pc = "loop" => (cons.emit # NoSource <=> cons.upd = "ok"))
    /\ [](cons.pc = "notify" => cons.upd = "ok" /\ cons.emit = NoSource)
    /\ [](cons.pc \in {"lock", "update"} => cons.upd = "none" /\ cons.emit = NoSource)
    /\ [][cons'.upd = "ok" /\ cons.upd # "ok"
            => cons.pc = "update" /\ applied' = cons.data]_vars
    /\ [][cons'.emit # cons.emit
            => \/ cons.pc = "notify" /\ cons.emit = NoSource /\ cons'.emit = cons.src
               \/ cons.pc = "loop" /\ cons'.emit = NoSource]_vars

C22_Witness ==
    /\ cons.pc = "loop"
    /\ cons.upd = "ok"
    /\ cons.emit = uri
    /\ applied = cons.data

(* C23: a ReSync is started by the store update on a goroutine of its own  *)
(* and the consumer loop goes on to notify; whatever a ReSync is doing the *)
(* consumer loop can take its next step, and no step of a ReSync, a failed *)
(* fetch included, changes the consumer loop, the group or Start.          *)
C23_ResyncDetached ==
    /\ [](cons.pc = "lock" => ENABLED ConsLock)
    /\ [](cons.pc = "update" => ENABLED ConsUpdate)
    /\ [](cons.pc = "notify" => ENABLED ConsNotify)
    /\ [](cons.pc = "loop" => ENABLED ConsLoop)
    /\ []((cons.pc = "recv" /\ dataSync # <<>>) => ENABLED ConsRecv)
    /\ [][\A r \in Resyncs :
            (resync[r].cyc.pc = "idle" /\ resync'[r].cyc.pc # "idle")
            => /\ cons.pc = "update" /\ cons'.pc = "notify"
               /\ resync'[r].cyc.pc = "fetch"]_vars
    /\ [][\A r \in Resyncs :
            (resync[r].cyc.pc # "idle" /\ resync'[r] # resync[r])
            => UNCHANGED <<cons, gCtx, start, dataSync>>]_vars

C23_Witness ==
    \E r \in Resyncs :
        /\ resync[r].cyc.pc = "ret"
        /\ resync[r].cyc.err # "nil"
        /\ cons.pc = "lock"

(* C24: the configuration state changes only in a step of the consumer     *)
(* loop that holds the write lock; the lock never has two writers, nor a   *)
(* writer together with a reader that is inside GetFlagConfiguration.      *)
C24_SingleWriterManyReaders ==
    /\ [](mu.writers <= 1)
    /\ [](~(mu.writers > 0 /\ mu.readers > 0))
    /\ [](mu.writers = 1 <=> cons.pc = "update")
    /\ [][applied' # applied => mu.writers = 1 /\ cons.pc = "update"]_vars
    /\ [][(cons.pc = "lock" /\ cons'.pc = "update") => mu.readers = 0]_vars

(* Several readers hold the lock together while the consumer loop waits *)
C24_Witness ==
    /\ mu.readers = MaxReaders
    /\ cons.pc = "lock"
    /\ ~ENABLED ConsLock

----------------------------------------------------------------------------
(* Release of resources.                                                   *)

(* C25: once the shared context is cancelled and Start has returned, the   *)
(* periodic trigger is not running any more and the Redis client has been  *)
(* closed.                                                                 *)
C25_ResourcesReleased ==
    (gCtx.cancelled /\ start.pc = "returned")
    => (cronState # "running" /\ client.st = "closed")

----------------------------------------------------------------------------
(* Properties of fetchData.                                                *)

(* The initial cycle of Sync is past its fetch and went on *)
InitialCycleSucceeded == syncT.pc \in {"initStore", "initSend", "setReady", "cronStart", "wait", "cronStop"}

BothMissing == redis.mode = "fixed" /\ redis.jr = "Nil" /\ redis.gr = "Nil"

(* C26: when JSON.GET and GET both report a missing key, fetchData returns *)
(* an empty payload and no error: no cycle stores a fingerprint or emits   *)
(* an event, the initial cycle goes on to set readiness, and a periodic    *)
(* cycle returns without an error.                                         *)
C26_MissingKeyIsEmpty ==
    /\ [](BothMissing
            => /\ fetchData(redis.jr, redis.gr, doc).data = NoData
               /\ fetchData(redis.jr, redis.gr, doc).err = "nil")
    /\ [](BothMissing
            => /\ dataSync = <<>> /\ LastSHA = NoSHA /\ applied = NoData
               /\ cons.pc \in {"new", "recv", "done"}
               /\ \A r \in Resyncs : resync[r].ch = <<>>)
    /\ [][(BothMissing /\ ~gCtx.cancelled /\ syncT.pc = "initFetch" /\ syncT' # syncT)
            => syncT'.pc = "setReady" /\ syncT'.err = "nil"]_vars
    /\ []((BothMissing /\ syncT.pc \in {"cronStart", "wait", "cronStop"}) => ready)
    /\ [][\A c \in Crons :
            (BothMissing /\ ~gCtx.cancelled /\ cron[c].pc = "fetch" /\ cron'[c] # cron[c])
            => cron'[c].pc = "ret" /\ cron'[c].err = "nil"]_vars

C26_Witness ==
    /\ BothMissing
    /\ ready
    /\ \E c \in Crons : cron[c].pc = "ret" /\ cron[c].err = "nil"
    /\ dataSync = <<>>

NativeFailsFallbackValid ==
    /\ redis.mode = "fixed" /\ redis.jr = "err" /\ redis.gr = "ok"
    /\ ConvertToJSON(doc).err = "nil"
    /\ ConvertToJSON(doc).json # NoData

(* C27: when JSON.GET fails with an error other than a missing key and GET *)
(* returns valid non-empty JSON text, fetchData returns the converted      *)
(* document and no error; the initial cycle, whose fingerprint was unset,  *)
(* stores its fingerprint and emits one event for it, and no cycle reports *)
(* a Redis error.                                                          *)
C27_FallbackSucceeds ==
    /\ [](NativeFailsFallbackValid
            => /\ fetchData(redis.jr, redis.gr, doc).data = CurrentPayload
               /\ fetchData(redis.jr, redis.gr, doc).err = "nil")
    /\ [][(NativeFailsFallbackValid /\ ~gCtx.cancelled /\ syncT.pc = "initFetch" /\ syncT' # syncT)
            => /\ syncT'.pc = "initStore" /\ syncT'.err = "nil"
               /\ syncT'.data = CurrentPayload]_vars
    /\ [][(NativeFailsFallbackValid /\ syncT.pc = "initSend" /\ syncT' # syncT)
            => /\ dataSync' = Append(dataSync, DataSync(syncT.data))
               /\ syncT.data # NoData
               /\ LastSHA = generateSHA(syncT.data)
               /\ syncT'.pc = "setReady"]_vars
    /\ []((redis.mode = "fixed" /\ redis.jr = "err" /\ redis.gr = "ok")
            => /\ syncT.err # "redis"
               /\ \A c \in Crons : cron[c].err # "redis"
               /\ \A r \in Resyncs : resync[r].cyc.err # "redis")
    /\ [][\A c \in Crons :
            (NativeFailsFallbackValid /\ cron[c].pc = "decide" /\ cron'[c] # cron[c])
            => (cron'[c].pc = "send" <=> LastSHA # cron[c].prev)]_vars

C27_Witness ==
    /\ NativeFailsFallbackValid
    /\ ready
    /\ applied = CurrentPayload
    /\ cons.emit = uri

BothFailNotBothMissing ==
    /\ redis.mode = "fixed"
    /\ redis.jr \in {"Nil", "err"} /\ redis.gr \in {"Nil", "err"}
    /\ ~BothMissing

(* C28: when JSON.GET and GET both fail and one of the failures is not a   *)
(* missing key, no cycle completes with an empty result: the initial cycle *)
(* does not go on and a periodic cycle returns with an error.              *)
C28_BothFailIsError ==
    BothFailNotBothMissing
    => /\ ~InitialCycleSucceeded
       /\ \A c \in Crons : cron[c].pc = "ret" => cron[c].err # "nil"

----------------------------------------------------------------------------
(* Properties of NewRedisSync.                                             *)

Constructed == conn.err # "none"
SchemeRecognized == uri.Scheme \in {"redis", "rediss"}
(* The first key parameter of the query is there and is not empty *)
FirstKeyGiven ==
    \E i \in 1..Len(uri.Query) :
        /\ uri.Query[i].k = "key" /\ uri.Query[i].v # ""
        /\ \A j \in 1..(i - 1) : uri.Query[j].k # "key"

(* C29 as stated: construction returns a connector exactly when the scheme *)
(* is redis or rediss and the key parameter is present and non-empty.      *)
C29_ConnectorIffSchemeAndKey ==
    Constructed => (conn.err = "nil" <=> (SchemeRecognized /\ FirstKeyGiven))

(* C29: construction returns a connector exactly when url.Parse accepts    *)
(* the connection string, the scheme is redis or rediss and the first key  *)
(* parameter of the query is non-empty; otherwise it returns an error and  *)
(* no connector.                                                           *)
C29_ConnectorIffParsedSchemeAndKey ==
    Constructed
    => /\ conn.err = "nil"
          <=> (uri.Host # "localhost:abc" /\ SchemeRecognized /\ FirstKeyGiven)
       /\ conn.err # "nil" => conn = [NotConstructed EXCEPT !.err = conn.err]
       /\ conn.err = "nil" => conn.Key = "flags"

C29_Witness ==
    /\ conn.err = "invalid Redis URI"
    /\ SchemeRecognized
    /\ FirstKeyGiven

(* The path segment after its leading "/" *)
Segment == IF uri.Path # <<>> /\ Head(uri.Path) = "/" THEN Tail(uri.Path) ELSE uri.Path
SegmentSigned == Segment # <<>> /\ Head(Segment) \in {"+", "-"}
SegmentDigits == IF SegmentSigned THEN Tail(Segment) ELSE Segment
SegmentNumeric ==
    SegmentDigits # <<>> /\ \A i \in 1..Len(SegmentDigits) : SegmentDigits[i] \in Digits

(* The decimal digits of a natural number *)
RECURSIVE ToDigits(_)
ToDigits(n) ==
    LET d == CHOOSE ch \in Digits : DigitValue(ch) = n % 10
    IN  IF n < 10 THEN <<d>> ELSE Append(ToDigits(n \div 10), d)

(* Database is the integer the segment is the numeral of *)
DatabaseIsSegment ==
    /\ ToDigits(IF conn.Database < 0 THEN 0 - conn.Database ELSE conn.Database)
         = StripZeros(SegmentDigits)
    /\ conn.Database < 0 => Head(Segment) = "-"
    /\ conn.Database > 0 => Head(Segment) # "-"

(* C30 as stated: the database index of an accepted connection string is   *)
(* the integer of the path segment when the segment is numeric, and 0      *)
(* otherwise.                                                              *)
C30_DatabaseFromPath ==
    conn.err = "nil"
    => IF SegmentNumeric THEN DatabaseIsSegment ELSE conn.Database = 0

SegmentFitsInt ==
    LET z == StripZeros(SegmentDigits)
        lim == IF Head(Segment) = "-" THEN MinIntDigits ELSE MaxIntDigits
    IN  \/ Len(z) < Len(lim)
        \/ Len(z) = Len(lim)
           /\ \A i \in 1..Len(z) :
                 DigitValue(z[i]) > DigitValue(lim[i])
                 => \E j \in 1..(i - 1) : DigitValue(z[j]) < DigitValue(lim[j])

(* C30: the database index of an accepted connection string is the integer *)
(* of the path segment when the segment is an optionally signed decimal    *)
(* numeral within the range of int, and 0 otherwise: when the path is      *)
(* absent or "/", when the segment is not such a numeral, and when its     *)
(* value is out of the range of int.                                       *)
C30_DatabaseFromPathInRange ==
    conn.err = "nil"
    => IF SegmentNumeric /\ SegmentFitsInt THEN DatabaseIsSegment ELSE conn.Database = 0

C30_Witness ==
    /\ conn.err = "nil"
    /\ SegmentNumeric
    /\ ~SegmentFitsInt
    /\ conn.Database = 0

----------------------------------------------------------------------------
(* Properties of Close and SetInterval.                                    *)

(* C31: Close may be called in every state, Init succeeded or not; a       *)
(* second or later call returns no error and leaves the client as the      *)
(* first call left it.                                                     *)
C31_CloseIdempotent ==
    /\ client.calls >= 1 => client.st = "closed"
    /\ client.calls >= 2 => client.ret = "nil"

(* C32: the trigger is installed by Sync with the spec of the interval     *)
(* stored at that moment, so with the latest SetInterval before Sync; a    *)
(* step that changes the stored interval changes nothing else, the         *)
(* installed trigger included.                                             *)
C32_IntervalReadAtInstall ==
    /\ [](Len(conn.Entries) <= 1)
    /\ [][conn'.Entries # conn.Entries
            => /\ syncT.pc = "addFunc"
               /\ conn' = [conn EXCEPT !.Entries = <<CronSpec(conn.Interval)>>]]_vars
    /\ [][conn'.Interval # conn.Interval
            => /\ conn' = [conn EXCEPT !.Interval = conn'.Interval]
               /\ UNCHANGED <<cronState, ticks, syncT, cron, start, gCtx, ready, LastSHA>>]_vars

(* Installed with an interval set before Sync, and the interval set again afterwards *)
C32_Witness ==
    /\ conn.Entries = <<CronSpec(2 * DefaultInterval)>>
    /\ conn.Interval = DefaultInterval
    /\ cronState = "running"

----------------------------------------------------------------------------
(* Properties of the fingerprint.                                          *)

(* C33: whatever cycles overlap, a periodic cycle that decides finds in    *)
(* the fingerprint field the fingerprint of the payload it fetched itself, *)
(* and it emits exactly when the fingerprint it read at its start was      *)
(* unset or differs from the fingerprint of that payload.                  *)
C33_FingerprintStepAtomic ==
    \A c \in Crons :
        /\ cron[c].pc = "decide" => LastSHA = generateSHA(cron[c].data)
        /\ CronFinished(c)
           => (cron[c].sent = cron[c].data
                 <=> (cron[c].prev = NoSHA \/ cron[c].prev # generateSHA(cron[c].data)))

(* A cycle that stores the fingerprint of its payload in this step *)
StoresFingerprint(cyc, cyc2) ==
    /\ cyc.pc \in {"store", "initStore"}
    /\ cyc2.pc # cyc.pc
    /\ cyc.err = "nil"
    /\ cyc.data # NoData
    /\ LastSHA' = generateSHA(cyc.data)

(* C34: the fingerprint changes only in the step of a cycle that fetched   *)
(* and converted a non-empty payload, and becomes the fingerprint of that  *)
(* payload; a cycle whose fetch fails or finds no document leaves it as it *)
(* was, so that a periodic cycle that began with the fingerprint set and   *)
(* fetches the same document after the key was away emits nothing.         *)
C34_FingerprintOnlyOnSuccess ==
    /\ [][LastSHA' # LastSHA
            => \/ StoresFingerprint(syncT, syncT')
               \/ \E c \in Crons : StoresFingerprint(cron[c], cron'[c])
               \/ \E r \in Resyncs : StoresFingerprint(resync[r].cyc, resync'[r].cyc)]_vars
    /\ [][\A c \in Crons :
            (cron[c].pc = "fetch" /\ cron'[c].pc = "ret") => LastSHA' = LastSHA]_vars
    /\ [][\A r \in Resyncs :
            (resync[r].cyc.pc = "fetch" /\ resync'[r].cyc.pc = "ret") => LastSHA' = LastSHA]_vars
    /\ [][(syncT.pc = "initFetch" /\ syncT'.pc \in {"done", "setReady"}) => LastSHA' = LastSHA]_vars
    /\ [](\A c \in Crons :
            cron[c].prev # NoSHA => (cron[c].pc # "send" /\ cron[c].sent = NoData))

(* The first periodic cycle found no document, the second one, begun after *)
(* it, the document again, and did not emit.                               *)
C34_Witness ==
    /\ ticks = 2
    /\ overlaps = {}
    /\ docChanges = 2
    /\ cron[1].pc = "ret" /\ cron[1].err = "nil" /\ cron[1].data = NoData
    /\ cron[1].prev = generateSHA("A")
    /\ doc # "bad"
    /\ CronFinished(2)
    /\ cron[2].prev = generateSHA("A")
    /\ cron[2].sent = NoData
    /\ LastSHA = generateSHA("A")

NativeSucceeds == redis.mode = "fixed" /\ redis.jr = "ok"

(* C35: when JSON.GET succeeds fetchData sends no GET, whatever GET would  *)
(* answer: a non-empty result is converted and returned, an empty one      *)
(* gives the empty payload and no error, and one that does not convert     *)
(* gives the conversion error, with which the initial cycle fails.         *)
C35_NativeSuccessNoFallback ==
    /\ [](NativeSucceeds
            => LET res == fetchData(redis.jr, redis.gr, doc)
               IN  /\ res.cmds = <<"JSON.GET">>
                   /\ doc = "" => (res.data = NoData /\ res.err = "nil")
                   /\ (doc # "" /\ ConvertToJSON(doc).err = "nil")
                      => (res.data = ConvertToJSON(doc).json /\ res.err = "nil")
                   /\ (doc # "" /\ ConvertToJSON(doc).err # "nil")
                      => (res.data = NoData /\ res.err = ConvertToJSON(doc).err)
                   /\ \A gr \in {"ok", "Nil", "err", "ctx"} :
                         fetchData(redis.jr, gr, doc) = res)
    /\ [][(NativeSucceeds /\ ~gCtx.cancelled /\ syncT.pc = "initFetch" /\ syncT' # syncT)
            => /\ doc = "" => (syncT'.pc = "setReady" /\ syncT'.err = "nil")
               /\ (doc # "" /\ ConvertToJSON(doc).err = "nil")
                  => (syncT'.pc = "initStore" /\ syncT'.data = ConvertToJSON(doc).json)
               /\ (doc # "" /\ ConvertToJSON(doc).err # "nil")
                  => (syncT'.pc = "done" /\ syncT'.err = ConvertToJSON(doc).err)]_vars

(* JSON.GET succeeded where GET would have failed *)
C35_Witness ==
    /\ NativeSucceeds
    /\ redis.gr = "err"
    /\ ready
    /\ applied = CurrentPayload
    /\ applied # NoData

(* C36: the scheduler is started only by Sync, after the initial fetch     *)
(* returned without error, its event (when it has one) was sent and        *)
(* readiness was set; no periodic cycle exists before that, and none ever  *)
(* begins when the initial fetch failed.                                   *)
C36_PeriodicAfterInitialCycle ==
    /\ [](cronState \in {"running", "stopped"}
            => (ready /\ syncT.pc \in {"wait", "cronStop", "done"} /\ syncT.err = "nil"))
    /\ [](\A c \in Crons : cron[c].pc # "idle" => (ready /\ cronState \in {"running", "stopped"}))
    /\ []((syncT.pc = "done" /\ syncT.err # "nil")
            => (cronState = "added" /\ ticks = 0 /\ ~ready))
    /\ [][(cronState' = "running" /\ cronState # "running")
            => (ready /\ syncT.pc = "cronStart")]_vars
    /\ [][(ready' /\ ~ready)
            => /\ syncT.pc = "setReady"
               /\ syncT.err = "nil"
               /\ syncT.data # NoData => syncT.sent = syncT.data]_vars
    /\ [][(syncT'.pc = "setReady" /\ syncT.pc # "setReady")
            => \/ syncT.pc = "initSend" /\ Len(dataSync') = Len(dataSync) + 1
               \/ syncT.pc = "initFetch" /\ syncT'.data = NoData /\ syncT'.err = "nil"]_vars

(* A periodic cycle has begun, after the initial event was applied *)
C36_Witness ==
    /\ \E c \in Crons : cron[c].pc = "fetch"
    /\ ready
    /\ cronState = "running"
    /\ applied # NoData

Queued == {dataSync[i] : i \in 1..Len(dataSync)}
              \cup UNION {{resync[r].ch[i] : i \in 1..Len(resync[r].ch)} : r \in Resyncs}

(* The step is the fetch of cycle cyc, which becomes cyc2: a payload it    *)
(* takes is the normalized document the key holds                          *)
TakesFetched(cyc, cyc2) ==
    cyc2.data # cyc.data
    => \/ cyc2.data = NoData
       \/ /\ cyc.pc \in {"fetch", "initFetch"}
          /\ cyc2.pc \in {"store", "initStore"}
          /\ cyc2.data = CurrentPayload
          /\ cyc2.data # NoData

(* C37: every event in the queue or in a channel given to ReSync has a     *)
(* non-empty payload and the connection string the connector was built     *)
(* with as its source; an event is appended only by a cycle at its send,    *)
(* with the payload that cycle fetched.                                     *)
C37_EventsCarryFetchedPayload ==
    /\ [](\A e \in Queued : e.FlagData # NoData /\ e.Source = uri)
    /\ [](cons.pc \in {"lock", "update", "notify"} => (cons.data # NoData /\ cons.src = uri))
    /\ [][dataSync' # dataSync /\ Len(dataSync') >= Len(dataSync)
            => \/ /\ syncT.pc = "initSend"
                  /\ dataSync' = Append(dataSync, [FlagData |-> syncT.data, Source |-> uri])
               \/ \E c \in Crons :
                     /\ cron[c].pc = "send"
                     /\ cron'[c].pc = "ret"
                     /\ dataSync' = Append(dataSync, [FlagData |-> cron[c].data, Source |-> uri])]_vars
    /\ [][\A r \in Resyncs :
             (resync'[r].ch # resync[r].ch /\ resync'[r].ch # <<>>)
             => /\ resync[r].cyc.pc = "send"
                /\ resync'[r].ch = Append(resync[r].ch,
                                          [FlagData |-> resync[r].cyc.data, Source |-> uri])]_vars
    /\ [][/\ (syncT.pc # "setReady" => TakesFetched(syncT, syncT'))
          /\ \A c \in Crons : TakesFetched(cron[c], cron'[c])
          /\ \A r \in Resyncs : TakesFetched(resync[r].cyc, resync'[r].cyc)]_vars

(* Events of a periodic cycle and of a ReSync are waiting *)
C37_Witness ==
    /\ dataSync # <<>>
    /\ \E c \in Crons : cron[c].pc = "ret" /\ cron[c].sent # NoData
    /\ \E r \in Resyncs : resync[r].ch # <<>>

(* C38: no step of the consumer changes the fingerprint or a cycle; a      *)
(* failed store update leaves the fingerprint at the hash of the payload   *)
(* that failed, and changes nothing but the consumer's own position; and a *)
(* periodic cycle that began with the fingerprint of the payload it        *)
(* fetches never waits to send and finishes without having sent, whatever  *)
(* became of the event.                                                    *)
C38_FingerprintIgnoresConsumer ==
    /\ [][(cons' # cons /\ cons.pc # "new")
            => (LastSHA' = LastSHA /\ cron' = cron /\ syncT' = syncT)]_vars
    /\ [][(cons'.upd = "err" /\ cons.upd # "err")
            => UNCHANGED <<LastSHA, dataSync, cron, syncT, resync, applied, ready, cronState>>]_vars
    /\ [](cons.upd = "err" => (cons.pc = "loop" /\ LastSHA = generateSHA(cons.data)))
    /\ [](\A c \in Crons :
             ( /\ cron[c].pc \in {"decide", "send", "ret"}
               /\ cron[c].data # NoData
               /\ cron[c].prev = generateSHA(cron[c].data) )
             => (cron[c].pc # "send" /\ cron[c].sent = NoData))

(* The only event was taken and its update failed; a periodic cycle then   *)
(* fetched the same payload and finished without sending.                  *)
C38_Witness ==
    /\ cons.pc = "recv"
    /\ dataSync = <<>>
    /\ applied = NoData
    /\ syncT.pc = "wait"
    /\ LastSHA # NoSHA
    /\ \E c \in Crons :
          /\ CronFinished(c)
          /\ cron[c].prev = LastSHA
          /\ cron[c].prev = generateSHA(cron[c].data)
          /\ cron[c].sent = NoData

====
